---- MODULE Spec2Model ----
(***************************************************************************)
(* TransducerTrainer (tiramisu_asr/runners/transducer_runners.py): the     *)
(* train step, the eval step, compile and fit, as a state machine.         *)
(*                                                                         *)
(* The trainer holds references to objects: a model, an optimizer, two     *)
(* Mean metrics.  The objects live in heaps (weights, optimizers, means)   *)
(* and the trainer's fields name them, so that two holders of one object   *)
(* see each other's updates and a replaced object lives on while something *)
(* still holds it.  The two steps are tf.functions: their Python body runs *)
(* when the function is traced, and the graph it leaves is bound to the    *)
(* objects the body found then.                                            *)
(*                                                                         *)
(* Tensors are sequences with one entry per example of the batch.  Float   *)
(* values are exact rationals [num, den] in lowest terms, so the model     *)
(* speaks of the arithmetic the code asks for, not of rounding, overflow   *)
(* or underflow of a particular float format.  A value the gradient tape   *)
(* has recorded is a pair [val, d]: the value and its partial derivatives  *)
(* with respect to the model's trainable variables.                        *)
(***************************************************************************)
EXTENDS Integers, Sequences, FiniteSets

VARIABLES
    pc,                 \* where the driver is: constructed, compiled, running, ...
    is_mixed_precision, \* self.is_mixed_precision
    global_batch_size,  \* self.global_batch_size (set by the base trainer)
    blank,              \* self.text_featurizer.blank
    weights,            \* the caller's model objects: name -> trainable variables
    optimizers,         \* the optimizer objects something still holds
    means,              \* the Mean objects something still holds
    model,              \* self.model: the name of a model object, or "none"
    optimizer,          \* self.optimizer: an index into optimizers, or 0
    ckpt,               \* what create_checkpoint_manager registered
    train_metrics,      \* self.train_metrics["transducer_loss"]: an index into means
    eval_metrics,       \* self.eval_metrics["transducer_loss"]: an index into means
    train_fn,           \* the objects the traced _train_step is bound to
    eval_fn,            \* the objects the traced _eval_step is bound to
    train_data_loader,  \* set by fit
    eval_data_loader,   \* set by fit
    ncalls,             \* calls of compile, fit and the set-metrics methods so far
    nsteps,             \* number of step callbacks the run loop has issued
    step,               \* record of the step callback that ran last, if no other
                        \* method ran since: what it called, with what
    setup,              \* record of the calls the last compile made, and of the
                        \* calls fit has made since
    fed                 \* for every Mean object, the per-example losses fed to it

vars == <<pc, is_mixed_precision, global_batch_size, blank, weights, optimizers, means,
          model, optimizer, ckpt, train_metrics, eval_metrics, train_fn, eval_fn,
          train_data_loader, eval_data_loader, ncalls, nsteps, step, setup, fed>>

\* The run loop issues at most MaxSteps step callbacks.
MaxSteps == 2

\* The caller makes at most MaxCalls calls of compile, fit, set_train_metrics
\* and set_eval_metrics.
MaxCalls == 4

\* Ranges over which the length arithmetic is checked on its own.
MaxInputLength == 12
MaxFactor == 5

-----------------------------------------------------------------------------
\* Exact arithmetic on rationals in lowest terms.

Abs(x) == IF x < 0 THEN -x ELSE x

RECURSIVE GCD(_, _)
GCD(a, b) == IF b = 0 THEN a ELSE GCD(b, a % b)

Rat(n, d) ==
    LET s == IF d < 0 THEN -1 ELSE 1
        g == GCD(Abs(n), Abs(d))
    IN  [num |-> (s * n) \div g, den |-> (s * d) \div g]

RatInt(n) == [num |-> n, den |-> 1]

RatAdd(a, b) == Rat(a.num * b.den + b.num * a.den, a.den * b.den)

RatSub(a, b) == Rat(a.num * b.den - b.num * a.den, a.den * b.den)

RatMul(a, b) == Rat(a.num * b.num, a.den * b.den)

RECURSIVE RatSum(_)
RatSum(s) == IF s = <<>> THEN RatInt(0) ELSE RatAdd(Head(s), RatSum(Tail(s)))

RatLess(a, b) == a.num * b.den < b.num * a.den

RatAbs(a) == [num |-> Abs(a.num), den |-> a.den]

\* 2^k as a rational, for k of either sign.
Pow2(k) == IF k >= 0 THEN RatInt(2 ^ k) ELSE Rat(1, 2 ^ (-k))

\* The reduced-precision format, float16: 11 significant bits, exponents
\* -14 to 15, largest finite value 65504.  NonFinite stands for inf and nan.
NonFinite == [num |-> 1, den |-> 0]

IsFinite(x) == x.den # 0

\* A positive magnitude below the smallest normal float16, 2^-14.
Subnormal(a) == a.num < a.den /\ a.num * 16384 < a.den

\* The binary exponent float16 gives a positive magnitude below 65520.
Exponent(a) ==
    IF Subnormal(a) THEN -14
    ELSE IF a.num >= a.den
    THEN CHOOSE k \in 0..15 : (2 ^ k) * a.den <= a.num /\ a.num < (2 ^ (k + 1)) * a.den
    ELSE 0 - (CHOOSE k \in 1..14 :
                  a.den <= a.num * (2 ^ k) /\ a.num * (2 ^ (k - 1)) < a.den)

\* x rounded to the nearest float16, ties to even; a magnitude that rounds
\* beyond the largest finite value overflows, one below the smallest normal
\* value is rounded on the subnormal grid.
Float16(x) ==
    IF ~IsFinite(x) THEN NonFinite
    ELSE IF x.num = 0 THEN x
    ELSE IF ~RatLess(RatAbs(x), RatInt(65520)) THEN NonFinite
    ELSE LET a == RatAbs(x)
             e == Exponent(a)
             t == RatMul(a, Pow2(10 - e))
             f == t.num \div t.den
             r == RatSub(t, RatInt(f))
             m == IF RatLess(r, Rat(1, 2)) THEN f
                  ELSE IF RatLess(Rat(1, 2), r) THEN f + 1
                  ELSE IF f % 2 = 0 THEN f ELSE f + 1
         IN  RatMul(RatInt((IF x.num < 0 THEN -1 ELSE 1) * m), Pow2(e - 10))

\* A value on the gradient tape: val, and d[i] = d val / d trainable_variables[i].
Dual(v, dv) == [val |-> v, d |-> dv]

DualAdd(a, b) ==
    Dual(RatAdd(a.val, b.val), [i \in DOMAIN a.d |-> RatAdd(a.d[i], b.d[i])])

DualScale(a, k) ==
    Dual(RatMul(a.val, k), [i \in DOMAIN a.d |-> RatMul(a.d[i], k)])

RECURSIVE DualSum(_, _)
DualSum(s, zero) == IF s = <<>> THEN zero ELSE DualAdd(Head(s), DualSum(Tail(s), zero))

-----------------------------------------------------------------------------
\* Inputs: models, optimizers, batches, datasets, saved checkpoints.

\* The Transducer objects the caller holds and hands to compile, each with
\* two trainable variables (kernel, bias) as they are when it is built.
Models ==
    { [name |-> "conformer", trainable_variables |-> <<RatInt(1), RatInt(0)>>,
       time_reduction_factor |-> 4],
      [name |-> "contextnet", trainable_variables |-> <<RatInt(1), RatInt(1)>>,
       time_reduction_factor |-> 3] }

ModelNames == {m.name : m \in Models}

NoModel == [name |-> "none", trainable_variables |-> <<>>, time_reduction_factor |-> 0]

\* An optimizer object: the base optimizer's step count and the loss-scale
\* wrappers around it, outermost first.  Each wrapper holds its current loss
\* scale and the number of finite steps since the scale last changed.
NoOptimizer == [name |-> "none", iterations |-> 0, layers |-> <<>>]

\* What a caller may pass as `optimizer`: an identifier (it resolves to a
\* plain optimizer), or an instance built for this call, which may already
\* be a loss-scale wrapper.
OptimizerArgs ==
    { [identifier |-> "sgd", instance |-> NoOptimizer],
      [identifier |-> "",
       instance |-> [name |-> "sgd", iterations |-> 0,
                     layers |-> << [loss_scale |-> 4, good_steps |-> 0] >>]] }

BlankIds == {1}

GlobalBatchSizes == {2, 3}

\* One batch, as the tuple the step unpacks (its first entry is unused).
Batch(f, il, l, ll, p) ==
    [features |-> f, input_length |-> il, labels |-> l, label_length |-> ll,
     pred_inp |-> p]

TrainBatches ==
    { Batch(<<2, 1>>, <<7, 3>>, <<0, 2>>, <<1, 2>>, <<1, 0>>) }

EvalBatches ==
    { Batch(<<3, 1>>, <<2, 9>>, <<1, 0>>, <<1, 1>>, <<1, 2>>) }

\* eval_dataset is None by default: the eval loader is then empty.
EvalDatasets == { {}, EvalBatches }

EvalTrainRatios == {1}

\* compile's default max_to_keep.
MaxToKeep == 10

\* Loss scales a wrapper may hold when a step runs: powers of two, as a
\* dynamic loss scale always is.
LossScales == {1, 4, 32768, 65536}

\* What load_checkpoint may find: nothing, or the state an earlier run saved,
\* here one finite step before the loss scale doubles.
SavedCheckpoints ==
    { [trainable_variables |-> <<RatInt(2), RatInt(-1)>>, iterations |-> 7,
       loss_scale |-> 32768, good_steps |-> 1999] }

-----------------------------------------------------------------------------
\* The external kernels the steps call.

\* "dynamic" loss scaling: the initial scale, and the number of consecutive
\* finite steps after which the scale doubles.
DynamicInitialScale == 32768
DynamicGrowthSteps == 2000

\* self.model([features, pred_inp], training=...): one logit per example.
\* The network itself is not part of this file; this stand-in is affine in the
\* two trainable variables and behaves differently in training mode.
ModelCall(m, inputs, training) ==
    [i \in DOMAIN inputs[1] |->
        LET kernel == m.trainable_variables[1]
            bias   == m.trainable_variables[2]
            f      == RatInt(inputs[1][i])
            c      == RatInt(inputs[2][i] + (IF training THEN 1 ELSE 0))
        IN  Dual(RatAdd(RatAdd(RatMul(kernel, f), bias), c), <<f, RatInt(1)>>)]

\* rnnt_loss(logits, labels, label_length, logit_length, blank): one
\* non-negative loss per example.  The alignment kernel is not part of this
\* file; this stand-in (the distance of the logit from the label, plus the
\* lengths and the blank) depends on each of its five arguments.
rnnt_loss(a) ==
    [i \in DOMAIN a.logits |->
        LET e    == RatSub(a.logits[i].val, RatInt(a.labels[i]))
            sign == IF e.num > 0 THEN 1 ELSE IF e.num < 0 THEN -1 ELSE 0
            k    == RatInt(a.label_length[i] + a.logit_length[i] + a.blank)
        IN  Dual(RatAdd(RatMul(RatInt(sign), e), k),
                 [j \in DOMAIN a.logits[i].d |->
                     RatMul(RatInt(sign), a.logits[i].d[j])])]

\* Faulty variant: the division rounds up.
LogitLengthCeil(input_length, factor) ==
    [i \in DOMAIN input_length |-> (input_length[i] + factor - 1) \div factor]

\* input_length // self.model.time_reduction_factor, elementwise.
LogitLength(input_length, factor) ==
    [i \in DOMAIN input_length |-> input_length[i] \div factor]

ZeroLike(m) == Dual(RatInt(0), [j \in DOMAIN m.trainable_variables |-> RatInt(0)])

\* Faulty variant: the mean over the examples present.
BatchMeanLoss(per_example_loss, gbs, zero) ==
    DualScale(DualSum(per_example_loss, zero), Rat(1, Len(per_example_loss)))

\* tf.nn.compute_average_loss(per_example_loss, global_batch_size)
compute_average_loss(per_example_loss, gbs, zero) ==
    DualScale(DualSum(per_example_loss, zero), Rat(1, gbs))

IsLossScaleOptimizer(opt) == opt.layers # <<>>

\* LossScaleOptimizer.get_scaled_loss(loss)
get_scaled_loss(opt, loss) == DualScale(loss, RatInt(opt.layers[1].loss_scale))

\* Faulty variant: the gradients come back still scaled.
StillScaledGradients(opt, grads) == grads

\* LossScaleOptimizer.get_unscaled_gradients(grads): each gradient times
\* 1 / loss_scale.  A non-finite gradient stays non-finite.  The loss scales
\* are powers of two, so on a finite gradient the product is exact.
get_unscaled_gradients(opt, grads) ==
    [j \in DOMAIN grads |->
        IF IsFinite(grads[j])
        THEN RatMul(grads[j], Rat(1, opt.layers[1].loss_scale))
        ELSE NonFinite]

\* tape.gradient(target, self.model.trainable_variables).  Under mixed
\* precision the model computes in float16, and so does the backward pass
\* through it: each gradient leaves it rounded to float16, or non-finite
\* when it overflows.
tape_gradient(target, sources, reduced) ==
    [j \in DOMAIN sources |-> IF reduced THEN Float16(target.d[j]) ELSE target.d[j]]

Min(a, b) == IF a < b THEN a ELSE b

\* zip(gradients, self.model.trainable_variables): pairs (gradient, variable index)
Zip(gradients, variables) ==
    [j \in 1..Min(Len(gradients), Len(variables)) |-> <<gradients[j], j>>]

\* A dynamic loss scale after a step with finite gradients: one more finite
\* step, and the scale doubles after DynamicGrowthSteps of them.
GrowLayer(l) ==
    IF l.good_steps + 1 >= DynamicGrowthSteps
    THEN [loss_scale |-> 2 * l.loss_scale, good_steps |-> 0]
    ELSE [loss_scale |-> l.loss_scale, good_steps |-> l.good_steps + 1]

\* A dynamic loss scale after a step with a non-finite gradient: the scale
\* halves, not below 1, and the count of finite steps starts again.
ShrinkLayer(l) ==
    [loss_scale |-> IF l.loss_scale >= 2 THEN l.loss_scale \div 2 ELSE 1,
     good_steps |-> 0]

AllFinite(grads_and_vars) ==
    \A p \in DOMAIN grads_and_vars : IsFinite(grads_and_vars[p][1])

\* optimizer.apply_gradients(grads_and_vars): each variable moves against the
\* gradient paired with it (unit learning rate); returns the new variables.
\* A LossScaleOptimizer applies nothing when a gradient is not finite; a
\* plain optimizer applies what it is given.
ApplyToVariables(variables, grads_and_vars, opt) ==
    IF IsLossScaleOptimizer(opt) /\ ~AllFinite(grads_and_vars) THEN variables
    ELSE [j \in DOMAIN variables |->
             IF \E p \in DOMAIN grads_and_vars :
                    grads_and_vars[p][2] = j /\ ~IsFinite(grads_and_vars[p][1])
             THEN NonFinite
             ELSE RatSub(variables[j],
                         RatSum([p \in DOMAIN grads_and_vars |->
                                    IF grads_and_vars[p][2] = j
                                    THEN grads_and_vars[p][1] ELSE RatInt(0)]))]

\* The optimizer after apply_gradients: with finite gradients the base
\* optimizer has made one more step and every dynamic scale has seen one
\* more finite step; with a non-finite one the outermost wrapper shrinks its
\* scale and hands nothing on.
ApplyToOptimizer(opt, grads_and_vars) ==
    IF IsLossScaleOptimizer(opt) /\ ~AllFinite(grads_and_vars)
    THEN [opt EXCEPT !.layers[1] = ShrinkLayer(@)]
    ELSE [name |-> opt.name, iterations |-> opt.iterations + 1,
          layers |-> [k \in DOMAIN opt.layers |-> GrowLayer(opt.layers[k])]]

\* tf.keras.metrics.Mean: running total and count.
NewMean == [total |-> RatInt(0), count |-> 0]

update_state(metric, values) ==
    [total |-> RatAdd(metric.total, RatSum([i \in DOMAIN values |-> values[i].val])),
     count |-> metric.count + Len(values)]

\* What a Mean is fed: a per-example tensor gives one value per example, a
\* scalar (the averaged or the scaled loss) gives one value.
AsValues(name, v) ==
    IF name \in {"train_loss", "scaled_train_loss"} THEN <<v>> ELSE v

\* Mean.result(): total / count (0 when nothing was fed)
MeanResult(metric) ==
    IF metric.count = 0 THEN RatInt(0)
    ELSE RatMul(metric.total, Rat(1, metric.count))

-----------------------------------------------------------------------------
\* The step callbacks, statement by statement.

\* The objects a step works on, by reference: a model by its name ("none":
\* no model), an optimizer and the Means by their index (0: none).
NoTrace == [traced |-> FALSE, model |-> "none", optimizer |-> 0,
            train_metrics |-> 0, eval_metrics |-> 0]

\* @tf.function, line 50.  The body of _train_step is Python that runs when
\* the function is traced, on its first call: self.model, self.optimizer and
\* self.train_metrics["transducer_loss"] are looked up then, and the graph
\* every later call runs keeps the objects found.  All batches of a loader
\* have one signature, so a later call does not trace again.
TrainBinding ==
    IF train_fn.traced THEN train_fn
    ELSE [traced |-> FALSE, model |-> model, optimizer |-> optimizer,
          train_metrics |-> train_metrics, eval_metrics |-> 0]

\* @tf.function, line 77: likewise for _eval_step, which looks up self.model
\* and self.eval_metrics["transducer_loss"].
EvalBinding ==
    IF eval_fn.traced THEN eval_fn
    ELSE [traced |-> FALSE, model |-> model, optimizer |-> 0,
          train_metrics |-> 0, eval_metrics |-> eval_metrics]

\* The model object of a name.
ModelObject(name) ==
    IF name = "none" THEN NoModel
    ELSE [name |-> name, trainable_variables |-> weights[name],
          time_reduction_factor |->
              (CHOOSE m \in Models : m.name = name).time_reduction_factor]

\* The trainer as a step bound to refs sees it.
Self(refs) ==
    [is_mixed_precision |-> is_mixed_precision, global_batch_size |-> global_batch_size,
     blank |-> blank, refs |-> refs,
     model |-> ModelObject(refs.model),
     optimizer |-> IF refs.optimizer = 0 THEN NoOptimizer ELSE optimizers[refs.optimizer],
     train_metrics |-> IF refs.train_metrics = 0 THEN NewMean
                       ELSE means[refs.train_metrics],
     eval_metrics |-> IF refs.eval_metrics = 0 THEN NewMean
                      ELSE means[refs.eval_metrics]]

\* A step's local variables; <<>> is "not assigned", <<v>> is "assigned v".
\* differentiated and applied remember what tape.gradient and
\* apply_gradients were handed.
NoLocals ==
    [logits |-> <<>>, loss_args |-> <<>>, per_train_loss |-> <<>>, eval_loss |-> <<>>,
     train_loss |-> <<>>, scaled_train_loss |-> <<>>, scaled_gradients |-> <<>>,
     gradients |-> <<>>, differentiated |-> <<>>, applied |-> <<>>]

\* A statement: the operation, the guard it stands under, the local it reads
\* and the local it assigns.
Stmt(op, when, arg, out) == [op |-> op, when |-> when, arg |-> arg, out |-> out]

\* Faulty variant: the metric is updated before the gradients are applied.
TrainProgramMetricFirst ==
    << Stmt("model_training", "always", "batch", "logits"),
       Stmt("rnnt_loss", "always", "logits", "per_train_loss"),
       Stmt("compute_average_loss", "always", "per_train_loss", "train_loss"),
       Stmt("get_scaled_loss", "mixed", "train_loss", "scaled_train_loss"),
       Stmt("gradient", "mixed", "scaled_train_loss", "scaled_gradients"),
       Stmt("get_unscaled_gradients", "mixed", "scaled_gradients", "gradients"),
       Stmt("gradient", "not_mixed", "train_loss", "gradients"),
       Stmt("update_train_metric", "always", "per_train_loss", "none"),
       Stmt("apply_gradients", "always", "gradients", "applied") >>

\* Faulty variant: the guard of line 68 is the negation of the guard of line 65.
TrainProgramGuardFlipped ==
    << Stmt("model_training", "always", "batch", "logits"),
       Stmt("rnnt_loss", "always", "logits", "per_train_loss"),
       Stmt("compute_average_loss", "always", "per_train_loss", "train_loss"),
       Stmt("get_scaled_loss", "mixed", "train_loss", "scaled_train_loss"),
       Stmt("gradient", "not_mixed", "scaled_train_loss", "scaled_gradients"),
       Stmt("get_unscaled_gradients", "not_mixed", "scaled_gradients", "gradients"),
       Stmt("gradient", "mixed", "train_loss", "gradients"),
       Stmt("apply_gradients", "always", "gradients", "applied"),
       Stmt("update_train_metric", "always", "per_train_loss", "none") >>

\* Faulty variant: the train metric is fed the averaged loss.
TrainProgramFeedsAverage ==
    << Stmt("model_training", "always", "batch", "logits"),
       Stmt("rnnt_loss", "always", "logits", "per_train_loss"),
       Stmt("compute_average_loss", "always", "per_train_loss", "train_loss"),
       Stmt("get_scaled_loss", "mixed", "train_loss", "scaled_train_loss"),
       Stmt("gradient", "mixed", "scaled_train_loss", "scaled_gradients"),
       Stmt("get_unscaled_gradients", "mixed", "scaled_gradients", "gradients"),
       Stmt("gradient", "not_mixed", "train_loss", "gradients"),
       Stmt("apply_gradients", "always", "gradients", "applied"),
       Stmt("update_train_metric", "always", "train_loss", "none") >>

\* _train_step, lines 55 to 75.
TrainProgram ==
    << Stmt("model_training", "always", "batch", "logits"),
       Stmt("rnnt_loss", "always", "logits", "per_train_loss"),
       Stmt("compute_average_loss", "always", "per_train_loss", "train_loss"),
       Stmt("get_scaled_loss", "mixed", "train_loss", "scaled_train_loss"),
       Stmt("gradient", "mixed", "scaled_train_loss", "scaled_gradients"),
       Stmt("get_unscaled_gradients", "mixed", "scaled_gradients", "gradients"),
       Stmt("gradient", "not_mixed", "train_loss", "gradients"),
       Stmt("apply_gradients", "always", "gradients", "applied"),
       Stmt("update_train_metric", "always", "per_train_loss", "none") >>

\* Faulty variant: the eval step feeds the train metric.
EvalProgramTrainMetric ==
    << Stmt("model_inference", "always", "batch", "logits"),
       Stmt("rnnt_loss", "always", "logits", "eval_loss"),
       Stmt("update_train_metric", "always", "eval_loss", "none") >>

\* _eval_step, lines 81 to 88.
EvalProgram ==
    << Stmt("model_inference", "always", "batch", "logits"),
       Stmt("rnnt_loss", "always", "logits", "eval_loss"),
       Stmt("update_eval_metric", "always", "eval_loss", "none") >>

\* if self.is_mixed_precision: ... else: ...
Taken(self, when) ==
    CASE when = "always"    -> TRUE
      [] when = "mixed"     -> self.is_mixed_precision
      [] when = "not_mixed" -> ~self.is_mixed_precision

\* The call a statement makes: on which optimizer object (-1: not on one).
Call(st, self) ==
    [op |-> st.op, arg |-> st.arg,
     on |-> IF st.op \in {"get_scaled_loss", "get_unscaled_gradients", "apply_gradients"}
            THEN self.refs.optimizer ELSE -1,
     wrapped |-> IsLossScaleOptimizer(self.optimizer)]

Raise(env, error) == [env EXCEPT !.raised = error]

Assign(env, st, v) ==
    [env EXCEPT !.locals[st.out] = <<v>>, !.calls = Append(@, Call(st, env.self))]

\* One statement on the environment [self, batch, locals, calls, raised].
\* Reading a local that was never assigned raises UnboundLocalError; a
\* loss-scale method on a plain optimizer raises AttributeError, and so does
\* self.model on a trainer that compile never gave one.
Exec(st, env) ==
    LET self == env.self
        loc  == env.locals
        b    == env.batch
        arg  == IF st.arg = "batch" THEN <<b>> ELSE loc[st.arg]
    IN
    IF env.raised # "" \/ ~Taken(self, st.when) THEN env
    ELSE IF arg = <<>> THEN Raise(env, "UnboundLocalError")
    ELSE CASE st.op \in {"model_training", "model_inference"} ->
                IF self.model = NoModel THEN Raise(env, "AttributeError")
                ELSE Assign(env, st,
                            ModelCall(self.model, <<b.features, b.pred_inp>>,
                                      st.op = "model_training"))
           [] st.op = "rnnt_loss" ->
                LET a == [logits |-> arg[1], labels |-> b.labels,
                          label_length |-> b.label_length,
                          logit_length |-> LogitLength(b.input_length,
                                              self.model.time_reduction_factor),
                          blank |-> self.blank]
                IN  [Assign(env, st, rnnt_loss(a)) EXCEPT !.locals.loss_args = <<a>>]
           [] st.op = "compute_average_loss" ->
                Assign(env, st, compute_average_loss(arg[1], self.global_batch_size,
                                                     ZeroLike(self.model)))
           [] st.op = "get_scaled_loss" ->
                IF ~IsLossScaleOptimizer(self.optimizer)
                THEN Raise([env EXCEPT !.calls = Append(@, Call(st, self))],
                           "AttributeError")
                ELSE Assign(env, st, get_scaled_loss(self.optimizer, arg[1]))
           [] st.op = "gradient" ->
                [Assign(env, st, tape_gradient(arg[1], self.model.trainable_variables,
                                               self.is_mixed_precision))
                    EXCEPT !.locals.differentiated = arg]
           [] st.op = "get_unscaled_gradients" ->
                IF ~IsLossScaleOptimizer(self.optimizer)
                THEN Raise([env EXCEPT !.calls = Append(@, Call(st, self))],
                           "AttributeError")
                ELSE Assign(env, st, get_unscaled_gradients(self.optimizer, arg[1]))
           [] st.op = "apply_gradients" ->
                LET gv == Zip(arg[1], self.model.trainable_variables)
                IN  [Assign(env, st, gv) EXCEPT
                        !.self.model.trainable_variables =
                            ApplyToVariables(self.model.trainable_variables, gv,
                                             self.optimizer),
                        !.self.optimizer = ApplyToOptimizer(self.optimizer, gv)]
           [] st.op = "update_train_metric" ->
                [env EXCEPT !.self.train_metrics = update_state(@, AsValues(st.arg, arg[1])),
                            !.calls = Append(@, Call(st, self))]
           [] st.op = "update_eval_metric" ->
                [env EXCEPT !.self.eval_metrics = update_state(@, AsValues(st.arg, arg[1])),
                            !.calls = Append(@, Call(st, self))]

RECURSIVE Run(_, _)
Run(program, env) ==
    IF program = <<>> THEN env ELSE Run(Tail(program), Exec(Head(program), env))

Enter(self, batch) ==
    [self |-> self, batch |-> batch, locals |-> NoLocals, calls |-> <<>>, raised |-> ""]

train_step(self, batch) == Run(TrainProgram, Enter(self, batch))

eval_step(self, batch) == Run(EvalProgram, Enter(self, batch))

-----------------------------------------------------------------------------
\* compile and fit, statement by statement.

NoCkpt == [model |-> "none", optimizer |-> 0, max_to_keep |-> 0]

\* Faulty variant: the optimizer is never wrapped.
CompileProgramNoWrap ==
    << Stmt("scope_enter", "always", "none", "none"),
       Stmt("set_model", "always", "model", "model"),
       Stmt("summary", "always", "none", "none"),
       Stmt("optimizers_get", "always", "optimizer", "optimizer"),
       Stmt("scope_exit", "always", "none", "none"),
       Stmt("create_checkpoint_manager", "always", "max_to_keep", "ckpt") >>

\* compile, lines 94 to 100.
CompileProgram ==
    << Stmt("scope_enter", "always", "none", "none"),
       Stmt("set_model", "always", "model", "model"),
       Stmt("summary", "always", "none", "none"),
       Stmt("optimizers_get", "always", "optimizer", "optimizer"),
       Stmt("LossScaleOptimizer", "mixed", "optimizer", "optimizer"),
       Stmt("scope_exit", "always", "none", "none"),
       Stmt("create_checkpoint_manager", "always", "max_to_keep", "ckpt") >>

\* Faulty variant: the run loop starts before the checkpoint is loaded.
FitProgramRunFirst ==
    << Stmt("set_train_data_loader", "always", "train_dataset", "train_data_loader"),
       Stmt("set_eval_data_loader", "always", "eval_dataset", "eval_data_loader"),
       Stmt("run", "always", "none", "none"),
       Stmt("load_checkpoint", "always", "none", "none") >>

\* fit, lines 103 to 106.
FitProgram ==
    << Stmt("set_train_data_loader", "always", "train_dataset", "train_data_loader"),
       Stmt("set_eval_data_loader", "always", "eval_dataset", "eval_data_loader"),
       Stmt("load_checkpoint", "always", "none", "none"),
       Stmt("run", "always", "none", "none") >>

\* tf.keras.optimizers.get: an identifier gives a fresh optimizer of that
\* name, an instance is returned as it is.
optimizers_get(o) ==
    IF o.identifier # ""
    THEN [name |-> o.identifier, iterations |-> 0, layers |-> <<>>]
    ELSE o.instance

\* mixed_precision.LossScaleOptimizer(opt, "dynamic"): one more wrapper.
LossScaleOptimizer(opt) ==
    [opt EXCEPT !.layers =
        << [loss_scale |-> DynamicInitialScale, good_steps |-> 0] >> \o @]

\* The base trainer's methods that compile and fit call.  Their code is not
\* part of this file; they are modelled by what their names and arguments say.

\* create_checkpoint_manager(max_to_keep, model=..., optimizer=...): registers
\* the two objects it is handed.
create_checkpoint_manager(max_to_keep, m, opt) ==
    [model |-> m, optimizer |-> opt, max_to_keep |-> max_to_keep]

\* set_train_data_loader(train_dataset)
set_train_data_loader(train_dataset) == train_dataset

\* set_eval_data_loader(eval_dataset, eval_train_ratio)
set_eval_data_loader(eval_dataset, eval_train_ratio) == eval_dataset

\* load_checkpoint restores a saved state into the registered objects: the
\* model's variables, the base optimizer's step count and, when the
\* registered optimizer is a wrapper, that wrapper's loss scale.
RestoreOptimizer(opt, saved) ==
    [opt EXCEPT
        !.iterations = saved.iterations,
        !.layers = [i \in DOMAIN @ |->
                       IF i = 1
                       THEN [loss_scale |-> saved.loss_scale,
                             good_steps |-> saved.good_steps]
                       ELSE @[i]]]

\* Without a checkpoint manager, or with no checkpoint saved, there is
\* nothing to restore.
load_checkpoint(env, found) ==
    IF env.ckpt = NoCkpt \/ found = <<>>
    THEN [weights |-> env.weights, optimizers |-> env.optimizers]
    ELSE [weights |-> [env.weights EXCEPT
                          ![env.ckpt.model] = found[1].trainable_variables],
          optimizers |-> [env.optimizers EXCEPT
                             ![env.ckpt.optimizer] = RestoreOptimizer(@, found[1])]]

\* The record of a call of compile or fit: whether it was made inside the
\* strategy scope, and how many loss-scale wrappers self.optimizer had.
SetupCall(st, env) ==
    [op |-> st.op, in_scope |-> env.in_scope,
     wrappers |-> IF env.optimizer = 0 THEN 0
                  ELSE Len(env.optimizers[env.optimizer].layers),
     loaded |-> env.loaded, started |-> env.started]

Logged(st, env) == [env EXCEPT !.calls = Append(@, SetupCall(st, env))]

\* Leaving the with-block of line 94, which also happens when a statement
\* inside it raises.
ScopeExit == Stmt("scope_exit", "always", "none", "none")

\* One statement of compile or fit on the environment.  args are the
\* call's arguments; args.accepts says whether this build's
\* LossScaleOptimizer accepts an optimizer that is already a wrapper (older
\* builds do, newer ones raise TypeError); args.found is the checkpoint
\* load_checkpoint finds, if any.  An optimizer that is resolved or built is
\* a new object; self.model and self.optimizer are references.
SetupExec(st, env) ==
    LET a == env.args
        e == Logged(st, env)
    IN
    IF env.raised # "" \/ ~Taken(env, st.when) THEN env
    ELSE CASE st.op = "scope_enter" -> [e EXCEPT !.in_scope = TRUE]
           [] st.op = "scope_exit" -> [e EXCEPT !.in_scope = FALSE]
           [] st.op = "set_model" -> [e EXCEPT !.model = a.model.name]
           [] st.op = "summary" -> e
           [] st.op = "optimizers_get" ->
                [e EXCEPT !.optimizers = Append(@, optimizers_get(a.optimizer)),
                          !.optimizer = Len(env.optimizers) + 1]
           [] st.op = "LossScaleOptimizer" ->
                IF IsLossScaleOptimizer(env.optimizers[env.optimizer]) /\ ~a.accepts
                THEN [e EXCEPT !.raised = "TypeError", !.in_scope = FALSE,
                               !.calls = Append(@, SetupCall(ScopeExit, e))]
                ELSE [e EXCEPT !.optimizers =
                                   Append(@, LossScaleOptimizer(env.optimizers[env.optimizer])),
                               !.optimizer = Len(env.optimizers) + 1]
           [] st.op = "create_checkpoint_manager" ->
                [e EXCEPT !.ckpt = create_checkpoint_manager(a.max_to_keep, env.model,
                                                             env.optimizer)]
           [] st.op = "set_train_data_loader" ->
                [e EXCEPT !.train_data_loader = set_train_data_loader(a.train_dataset)]
           [] st.op = "set_eval_data_loader" ->
                [e EXCEPT !.eval_data_loader =
                              set_eval_data_loader(a.eval_dataset, a.eval_train_ratio)]
           [] st.op = "load_checkpoint" ->
                [e EXCEPT !.loaded = TRUE,
                          !.weights = load_checkpoint(env, a.found).weights,
                          !.optimizers = load_checkpoint(env, a.found).optimizers]
           [] st.op = "run" -> [e EXCEPT !.started = TRUE]

RECURSIVE SetupRun(_, _)
SetupRun(program, env) ==
    IF program = <<>> THEN env
    ELSE SetupRun(Tail(program), SetupExec(Head(program), env))

SetupEnter(args) ==
    [is_mixed_precision |-> is_mixed_precision, weights |-> weights,
     optimizers |-> optimizers, model |-> model, optimizer |-> optimizer, ckpt |-> ckpt,
     train_data_loader |-> train_data_loader, eval_data_loader |-> eval_data_loader,
     args |-> args, calls |-> <<>>, raised |-> "", in_scope |-> FALSE,
     loaded |-> FALSE, started |-> FALSE]

compile(args) == SetupRun(CompileProgram, SetupEnter(args))

fit(args) == SetupRun(FitProgram, SetupEnter(args))

-----------------------------------------------------------------------------
\* Objects and references.

\* The objects that refs name, in the order of their first mention.
RECURSIVE Firsts(_)
Firsts(refs) ==
    IF refs = <<>> THEN <<>>
    ELSE LET r == Firsts(SubSeq(refs, 1, Len(refs) - 1))
             x == refs[Len(refs)]
         IN  IF x = 0 \/ (\E i \in DOMAIN r : r[i] = x) THEN r ELSE Append(r, x)

\* The place of object x in that order.
Rank(order, x) == IF x = 0 THEN 0 ELSE CHOOSE i \in DOMAIN order : order[i] = x

\* The heap with only the objects something still refers to.
Held(heap, order) == [i \in DOMAIN order |-> heap[order[i]]]

-----------------------------------------------------------------------------
\* The state machine.

NoStep == [handler |-> "none", batch |-> <<>>, before |-> <<>>, calls |-> <<>>,
           locals |-> NoLocals, raised |-> ""]

\* set_train_metrics, lines 40 to 43: the train metric is a fresh Mean.
set_train_metrics == NewMean

\* set_eval_metrics, lines 45 to 48: the eval metric is a fresh Mean.
set_eval_metrics == NewMean

\* __init__, lines 36 to 38, with the metrics of lines 40 to 48.  Neither
\* step function has been traced; the caller's models are as built.
Init ==
    /\ pc = "constructed"
    /\ is_mixed_precision \in BOOLEAN
    /\ global_batch_size \in GlobalBatchSizes
    /\ blank \in BlankIds
    /\ weights = [n \in ModelNames |->
                     (CHOOSE m \in Models : m.name = n).trainable_variables]
    /\ optimizers = <<>>
    /\ means = << set_train_metrics, set_eval_metrics >>
    /\ model = "none"
    /\ optimizer = 0
    /\ ckpt = NoCkpt
    /\ train_metrics = 1
    /\ eval_metrics = 2
    /\ train_fn = NoTrace
    /\ eval_fn = NoTrace
    /\ train_data_loader = {}
    /\ eval_data_loader = {}
    /\ ncalls = 0
    /\ nsteps = 0
    /\ step = NoStep
    /\ setup = [compile |-> <<>>, fit |-> <<>>, raised |-> "",
                compile_args |-> <<>>, fit_args |-> <<>>]
    /\ fed = << <<>>, <<>> >>

\* The Means after self's train and eval metric became t and e of heap.
Metrics(heap, fedheap, t, e) ==
    LET order == Firsts(<<t, e, train_fn.train_metrics, eval_fn.eval_metrics>>)
    IN  /\ means' = Held(heap, order)
        /\ fed' = Held(fedheap, order)
        /\ train_metrics' = Rank(order, t)
        /\ eval_metrics' = Rank(order, e)
        /\ train_fn' = [train_fn EXCEPT !.train_metrics = Rank(order, @)]
        /\ eval_fn' = [eval_fn EXCEPT !.eval_metrics = Rank(order, @)]

\* set_train_metrics may be called at any time: self.train_metrics names a
\* new Mean, to which nothing was fed.  A traced _train_step keeps the Mean
\* it was traced with.
SetTrainMetrics ==
    /\ ncalls < MaxCalls
    /\ ncalls' = ncalls + 1
    /\ Metrics(Append(means, set_train_metrics), Append(fed, <<>>),
               Len(means) + 1, eval_metrics)
    /\ step' = NoStep
    /\ UNCHANGED <<pc, is_mixed_precision, global_batch_size, blank, weights, optimizers,
                   model, optimizer, ckpt, train_data_loader, eval_data_loader, nsteps,
                   setup>>

\* set_eval_metrics may be called at any time: self.eval_metrics names a new
\* Mean, to which nothing was fed.  A traced _eval_step keeps the Mean it was
\* traced with.
SetEvalMetrics ==
    /\ ncalls < MaxCalls
    /\ ncalls' = ncalls + 1
    /\ Metrics(Append(means, set_eval_metrics), Append(fed, <<>>),
               train_metrics, Len(means) + 1)
    /\ step' = NoStep
    /\ UNCHANGED <<pc, is_mixed_precision, global_batch_size, blank, weights, optimizers,
                   model, optimizer, ckpt, train_data_loader, eval_data_loader, nsteps,
                   setup>>

\* compile has no precondition: it may be called on a fresh trainer, again
\* after a compile (also one that raised), and after fit has returned.  It is
\* not called while fit is inside the run loop.  When LossScaleOptimizer
\* raises, self.model and self.optimizer are already reassigned and the
\* checkpoint manager is not.  A traced _train_step keeps its optimizer.
Compile(m, o, accepts) ==
    /\ pc \in {"constructed", "compiled", "done", "failed"}
    /\ ncalls < MaxCalls
    /\ ncalls' = ncalls + 1
    /\ step' = NoStep
    /\ LET a == [model |-> m, optimizer |-> o, max_to_keep |-> MaxToKeep,
                 accepts |-> accepts]
           r == compile(a)
           order == Firsts(<<r.optimizer, r.ckpt.optimizer, train_fn.optimizer>>)
       IN  /\ pc' = IF r.raised = "" THEN "compiled" ELSE "failed"
           /\ model' = r.model
           /\ optimizers' = Held(r.optimizers, order)
           /\ optimizer' = Rank(order, r.optimizer)
           /\ ckpt' = [r.ckpt EXCEPT !.optimizer = Rank(order, @)]
           /\ train_fn' = [train_fn EXCEPT !.optimizer = Rank(order, @)]
           /\ setup' = [compile |-> r.calls, fit |-> <<>>, raised |-> r.raised,
                       compile_args |-> << [model |-> m, optimizer |-> o] >>,
                       fit_args |-> <<>>]
    /\ UNCHANGED <<is_mixed_precision, global_batch_size, blank, weights, means,
                   train_metrics, eval_metrics, eval_fn, train_data_loader,
                   eval_data_loader, nsteps, fed>>

\* The last compile returned.
Compiled == setup.compile # <<>> /\ setup.raised = ""

\* fit has no precondition either: it may be called on a trainer that was
\* never compiled or whose compile raised, and again after it has returned.
\* The checkpoint is restored into the objects the checkpoint manager holds;
\* a checkpoint is found only through a checkpoint manager.
Fit(td, ed, ratio, found) ==
    /\ pc \in {"constructed", "compiled", "done", "failed"}
    /\ ckpt = NoCkpt => found = <<>>
    /\ ncalls < MaxCalls
    /\ ncalls' = ncalls + 1
    /\ step' = NoStep
    /\ LET a == [train_dataset |-> td, eval_dataset |-> ed,
                 eval_train_ratio |-> ratio, found |-> found]
           r == fit(a)
       IN  /\ pc' = IF r.started THEN "running" ELSE "failed"
           /\ weights' = r.weights
           /\ optimizers' = r.optimizers
           /\ train_data_loader' = r.train_data_loader
           /\ eval_data_loader' = r.eval_data_loader
           /\ setup' = [setup EXCEPT !.fit = r.calls, !.fit_args = <<a>>]
    /\ UNCHANGED <<is_mixed_precision, global_batch_size, blank, means, model, optimizer,
                   ckpt, train_metrics, eval_metrics, train_fn, eval_fn, nsteps, fed>>

\* The base trainer's run loop, which fit starts with its last statement and
\* whose code is not part of this file: it is inside this loop, and nowhere
\* else, that the two step functions are called.
InRunLoop == pc = "running"

StepLog(handler, r) ==
    [handler |-> handler, batch |-> <<r.batch>>,
     before |-> <<Self(r.self.refs)>>,
     calls |-> r.calls, locals |-> r.locals, raised |-> r.raised]

\* What the kernel gives for a batch under the current variables.
PerExampleLoss(m, b, training) ==
    rnnt_loss([logits |-> ModelCall(m, <<b.features, b.pred_inp>>, training),
               labels |-> b.labels, label_length |-> b.label_length,
               logit_length |-> LogitLength(b.input_length, m.time_reduction_factor),
               blank |-> blank])

\* What a step leaves: the objects it is bound to as it left them.  A step
\* that raises propagates out of the run loop and out of fit.
Effects(r) ==
    LET u == r.self.refs
    IN  /\ pc' = IF r.raised = "" THEN "running" ELSE "failed"
        /\ weights' = IF u.model = "none" THEN weights
                      ELSE [weights EXCEPT ![u.model] = r.self.model.trainable_variables]
        /\ optimizers' = IF u.optimizer = 0 THEN optimizers
                         ELSE [optimizers EXCEPT ![u.optimizer] = r.self.optimizer]
        /\ means' = [i \in DOMAIN means |->
                        IF i = u.train_metrics THEN r.self.train_metrics
                        ELSE IF i = u.eval_metrics THEN r.self.eval_metrics
                        ELSE means[i]]
        /\ nsteps' = nsteps + 1

\* The run loop hands one batch of the train loader to _train_step.  The
\* first call that returns leaves the traced function.
RunTrainStep(b) ==
    /\ InRunLoop
    /\ nsteps < MaxSteps
    /\ b \in train_data_loader
    /\ LET r == train_step(Self(TrainBinding), b)
       IN  /\ Effects(r)
           /\ step' = StepLog("train", r)
           /\ train_fn' = IF r.raised = "" THEN [TrainBinding EXCEPT !.traced = TRUE]
                          ELSE train_fn
           /\ fed' = IF r.raised # "" THEN fed
                     ELSE [fed EXCEPT ![TrainBinding.train_metrics] =
                              @ \o PerExampleLoss(ModelObject(TrainBinding.model), b, TRUE)]
    /\ UNCHANGED <<is_mixed_precision, global_batch_size, blank, model, optimizer, ckpt,
                   train_metrics, eval_metrics, eval_fn, train_data_loader,
                   eval_data_loader, ncalls, setup>>

\* The run loop hands one batch of the eval loader to _eval_step.  The first
\* call that returns leaves the traced function.
RunEvalStep(b) ==
    /\ InRunLoop
    /\ nsteps < MaxSteps
    /\ b \in eval_data_loader
    /\ LET r == eval_step(Self(EvalBinding), b)
       IN  /\ Effects(r)
           /\ step' = StepLog("eval", r)
           /\ eval_fn' = IF r.raised = "" THEN [EvalBinding EXCEPT !.traced = TRUE]
                         ELSE eval_fn
           /\ fed' = IF r.raised # "" THEN fed
                     ELSE [fed EXCEPT ![EvalBinding.eval_metrics] =
                              @ \o PerExampleLoss(ModelObject(EvalBinding.model), b, FALSE)]
    /\ UNCHANGED <<is_mixed_precision, global_batch_size, blank, model, optimizer, ckpt,
                   train_metrics, eval_metrics, train_fn, train_data_loader,
                   eval_data_loader, ncalls, setup>>

\* The run loop returns.
RunEnd ==
    /\ InRunLoop
    /\ pc' = "done"
    /\ UNCHANGED <<is_mixed_precision, global_batch_size, blank, weights, optimizers,
                   means, model, optimizer, ckpt, train_metrics, eval_metrics, train_fn,
                   eval_fn, train_data_loader, eval_data_loader, ncalls, nsteps, step,
                   setup, fed>>

Next ==
    \/ \E m \in Models, o \in OptimizerArgs, accepts \in BOOLEAN : Compile(m, o, accepts)
    \/ \E ed \in EvalDatasets, ratio \in EvalTrainRatios,
          found \in {<<>>} \cup {<<c>> : c \in SavedCheckpoints} :
            Fit(TrainBatches, ed, ratio, found)
    \/ \E b \in TrainBatches : RunTrainStep(b)
    \/ \E b \in EvalBatches : RunEvalStep(b)
    \/ RunEnd
    \/ SetTrainMetrics
    \/ SetEvalMetrics

Spec == Init /\ [][Next]_vars

-----------------------------------------------------------------------------
\* Reading the record of the last step.

ScalingOps == {"get_scaled_loss", "get_unscaled_gradients"}

OpsOf(calls) == [i \in DOMAIN calls |-> calls[i].op]

CoreOps(calls) == SelectSeq(OpsOf(calls), LAMBDA o : o \notin ScalingOps)

\* The trainer as the last step saw it when it began: the objects the step
\* is bound to, which are the trainer's own unless the step function was
\* traced before the trainer's field was reassigned.
Before == step.before[1]

\* The last method of the trainer that ran was a train (eval) step, on a
\* trainer that compile has given a model.
Trained == step.handler = "train" /\ Before.model # NoModel

Evaluated == step.handler = "eval" /\ Before.model # NoModel

\* The objects of the last step, as it left them.
Used == Before.refs

AfterModel == ModelObject(Used.model)

AfterOptimizer == optimizers[Used.optimizer]

AfterTrainMetric == means[Used.train_metrics]

AfterEvalMetric == means[Used.eval_metrics]

TheBatch == step.batch[1]

Loc == step.locals

Values(per) == [i \in DOMAIN per |-> per[i].val]

\* The trainer as it was before the last step, with another batch size,
\* flag and loss scale.
Counterfactual(gbs, mixed, scale) ==
    [Before EXCEPT !.global_batch_size = gbs, !.is_mixed_precision = mixed,
                   !.optimizer.layers =
                       IF mixed THEN << [loss_scale |-> scale, good_steps |-> 0] >>
                       ELSE <<>>]


-----------------------------------------------------------------------------
FiniteGradients == \A j \in DOMAIN Loc.gradients[1] : IsFinite(Loc.gradients[1][j])

UpToTheFormat(t, plain) ==
    LET r     == train_step(t, TheBatch)
        scale == t.optimizer.layers[1].loss_scale
        exact == [j \in DOMAIN plain.locals.gradients[1] |->
                     RatMul(plain.locals.gradients[1][j], RatInt(scale))]
        g     == r.locals.gradients[1]
        p     == plain.locals.gradients[1]
    IN
    /\ r.raised = ""
    /\ r.locals.differentiated = r.locals.scaled_train_loss
    /\ r.locals.scaled_train_loss[1] = DualScale(r.locals.train_loss[1], RatInt(scale))
    /\ r.locals.train_loss = plain.locals.train_loss
    /\ DOMAIN g = DOMAIN p
    /\ r.locals.applied[1] = [j \in DOMAIN g |-> <<g[j], j>>]
    /\ \A j \in DOMAIN g :
          /\ r.locals.scaled_gradients[1][j] = Float16(exact[j])
          /\ Float16(exact[j]) = exact[j] => g[j] = p[j]
          /\ IsFinite(Float16(exact[j])) =>
                /\ IsFinite(g[j])
                /\ RatMul(g[j], RatInt(scale)) = r.locals.scaled_gradients[1][j]
                /\ (p[j].num # 0 /\ ~Subnormal(RatAbs(exact[j]))) =>
                      ~RatLess(RatMul(RatAbs(p[j]), Rat(1, 2048)),
                               RatAbs(RatSub(g[j], p[j])))
          /\ ~RatLess(RatAbs(exact[j]), RatInt(65520)) => ~IsFinite(g[j])
          /\ p[j].num = 0 => g[j] = p[j]
    /\ (\A j \in DOMAIN g : IsFinite(g[j])) =>
          r.self.model.trainable_variables =
              [j \in DOMAIN g |-> RatSub(t.model.trainable_variables[j], g[j])]
    /\ (\E j \in DOMAIN g : ~IsFinite(g[j])) =>
          /\ r.self.model = t.model
          /\ r.self.optimizer.iterations = t.optimizer.iterations
          /\ r.self.optimizer.layers[1].loss_scale = (IF scale >= 2 THEN scale \div 2 ELSE 1)

C10_ScaledLossGuards ==
    Trained =>
        /\ step.raised # "UnboundLocalError"
        /\ Loc.differentiated # <<>>
        /\ (Loc.scaled_train_loss # <<>>) <=> is_mixed_precision
        /\ Loc.scaled_train_loss # <<>> => Loc.differentiated = Loc.scaled_train_loss
        /\ Loc.scaled_train_loss = <<>> => Loc.differentiated = Loc.train_loss
        /\ \A i \in DOMAIN step.calls :
              step.calls[i].op = "gradient" =>
                  step.calls[i].arg =
                      IF is_mixed_precision THEN "scaled_train_loss" ELSE "train_loss"

\* Both paths have been taken: here the mixed one, where the scaled loss
\* differs from the loss.
C10_Witness ==
    /\ Trained
    /\ is_mixed_precision
    /\ Loc.scaled_train_loss # <<>>
    /\ Loc.scaled_train_loss # Loc.train_loss

\* C3: an eval step runs the model in inference mode, computes no gradient,
\* calls no optimizer method, and leaves the trainable variables, the
\* optimizer and the train metric unchanged, changing only the eval metric; a
\* train step leaves the eval metric unchanged.
C3_StepFrames ==
    [][ LET s == step'
            u == s.before[1].refs
            n == Len(s.batch[1].features)
        IN
        /\ (nsteps' = nsteps + 1 /\ s.handler = "eval" /\ s.before[1].model # NoModel) =>
              /\ weights' = weights
              /\ optimizers' = optimizers
              /\ train_metrics' = train_metrics
              /\ means'[train_metrics] = means[train_metrics]
              /\ u.eval_metrics \in {eval_metrics, eval_fn.eval_metrics}
              /\ \A i \in DOMAIN means : i # u.eval_metrics => means'[i] = means[i]
              /\ means'[u.eval_metrics].count = means[u.eval_metrics].count + n
              /\ OpsOf(s.calls) = << "model_inference", "rnnt_loss", "update_eval_metric" >>
              /\ \A i \in DOMAIN s.calls : s.calls[i].on = -1
              /\ s.locals.differentiated = <<>> /\ s.locals.applied = <<>>
        /\ (nsteps' = nsteps + 1 /\ s.handler = "train" /\ s.before[1].model # NoModel) =>
              /\ eval_metrics' = eval_metrics
              /\ means'[eval_metrics] = means[eval_metrics]
              /\ u.train_metrics \in {train_metrics, train_fn.train_metrics}
              /\ \A i \in DOMAIN means : i # u.train_metrics => means'[i] = means[i]
              /\ \A i \in DOMAIN s.calls :
                    s.calls[i].op \notin {"model_inference", "update_eval_metric"}
        /\ (nsteps' = nsteps + 1 /\ s.before[1].model = NoModel) =>
              /\ weights' = weights /\ optimizers' = optimizers /\ means' = means
              /\ s.calls = <<>>
      ]_vars

\* An eval step after a train step: both metrics hold values.
C3_Witness ==
    /\ Evaluated
    /\ nsteps = 2
    /\ means[train_metrics].count > 0
    /\ AfterEvalMetric.count > 0
    /\ AfterEvalMetric.total # RatInt(0)

\* C4 as stated: after compile the optimizer is a loss-scale wrapper exactly
\* when is_mixed_precision is true, and the scaling methods are only ever
\* invoked on a wrapper.
C4_WrapperIffFlag ==
    Compiled =>
        /\ IsLossScaleOptimizer(optimizers[optimizer]) <=> is_mixed_precision
        /\ \A i \in DOMAIN step.calls :
              step.calls[i].op \in ScalingOps => step.calls[i].wrapped

\* C4, amended: after compile the optimizer is a loss-scale wrapper exactly
\* when is_mixed_precision is true or the optimizer passed to compile already
\* was one; when the flag is true its outermost wrapper is the dynamic one
\* compile created.  The scaling methods are invoked only on a wrapper, and
\* never when the flag is false.
C4_WrapperIffFlagOrPassedWrapped ==
    /\ Compiled =>
          LET passed == optimizers_get(setup.compile_args[1].optimizer)
              mine   == optimizers[optimizer]
          IN
          /\ IsLossScaleOptimizer(mine) <=>
                (is_mixed_precision \/ IsLossScaleOptimizer(passed))
          /\ Len(mine.layers) =
                Len(passed.layers) + (IF is_mixed_precision THEN 1 ELSE 0)
          /\ (is_mixed_precision /\ pc = "compiled") =>
                mine.layers[1] = [loss_scale |-> DynamicInitialScale, good_steps |-> 0]
          /\ step.raised # "AttributeError"
    /\ \A i \in DOMAIN step.calls :
          step.calls[i].op \in ScalingOps =>
              /\ step.calls[i].wrapped
              /\ step.calls[i].on >= 1
              /\ is_mixed_precision
    /\ (Trained /\ is_mixed_precision) =>
          \E i \in DOMAIN step.calls : step.calls[i].op = "get_scaled_loss"

\* A mixed-precision train step has called both scaling methods.
C4_Witness ==
    /\ Compiled
    /\ Trained
    /\ is_mixed_precision
    /\ \E i, j \in DOMAIN step.calls :
          /\ step.calls[i].op = "get_scaled_loss"
          /\ step.calls[j].op = "get_unscaled_gradients"
          /\ step.calls[i].wrapped

\* C5: fit sets the train loader, sets the eval loader, loads the checkpoint
\* and then starts the run loop, each once and in this order; no step runs
\* before the checkpoint load has completed, and steps run only once the run
\* loop has started.
C5_FitOrder ==
    /\ setup.fit # <<>> =>
          /\ OpsOf(setup.fit) =
                << "set_train_data_loader", "set_eval_data_loader", "load_checkpoint", "run" >>
          /\ train_data_loader = setup.fit_args[1].train_dataset
          /\ eval_data_loader = setup.fit_args[1].eval_dataset
          /\ setup.fit[Len(setup.fit)].loaded
          /\ \A i \in DOMAIN setup.fit : ~setup.fit[i].started
    /\ step # NoStep =>
          /\ setup.fit # <<>>
          /\ setup.fit[Len(setup.fit)].op = "run"
          /\ setup.fit[Len(setup.fit)].loaded
          /\ pc \in {"running", "done", "failed"}
    /\ setup.fit = <<>> => (step = NoStep /\ pc \notin {"running", "done"})
    /\ pc \in {"running", "done"} => setup.fit # <<>>
    /\ pc = "constructed" => nsteps = 0
    /\ pc = "compiled" => Compiled

\* Steps have run after fit restored a saved checkpoint.
C5_Witness ==
    /\ Trained
    /\ setup.fit # <<>>
    /\ setup.fit_args[1].found # <<>>
    /\ setup.fit_args[1].eval_dataset # {}

\* C6: each metric is fed the per-example losses, so every Mean holds the
\* sum and the count of the losses fed to it since set_train_metrics
\* (set_eval_metrics) made it, whatever the global batch size, the flag and
\* the loss scale.
C6_MetricsHoldPerExampleLosses ==
    /\ DOMAIN fed = DOMAIN means
    /\ \A i \in DOMAIN means :
          /\ means[i].count = Len(fed[i])
          /\ means[i].total = RatSum(Values(fed[i]))
          /\ means[i].count > 0 =>
                RatMul(MeanResult(means[i]), RatInt(Len(fed[i]))) = RatSum(Values(fed[i]))
    /\ Trained =>
          /\ step.calls[Len(step.calls)].arg = "per_train_loss"
          /\ Loc.per_train_loss[1] = PerExampleLoss(Before.model, TheBatch, TRUE)
          /\ AfterTrainMetric = update_state(Before.train_metrics, Loc.per_train_loss[1])
          /\ \A gbs \in GlobalBatchSizes :
                train_step(Counterfactual(gbs, FALSE, 1), TheBatch).self.train_metrics
                    = AfterTrainMetric
          /\ \A scale \in LossScales :
                train_step(Counterfactual(global_batch_size, TRUE, scale),
                           TheBatch).self.train_metrics = AfterTrainMetric
    /\ Evaluated =>
          /\ step.calls[Len(step.calls)].arg = "eval_loss"
          /\ Loc.eval_loss[1] = PerExampleLoss(Before.model, TheBatch, FALSE)
          /\ AfterEvalMetric = update_state(Before.eval_metrics, Loc.eval_loss[1])
          /\ \A gbs \in GlobalBatchSizes :
                eval_step(Counterfactual(gbs, FALSE, 1), TheBatch).self.eval_metrics
                    = AfterEvalMetric
          /\ \A scale \in LossScales :
                eval_step(Counterfactual(global_batch_size, TRUE, scale),
                          TheBatch).self.eval_metrics = AfterEvalMetric

\* Two train steps on a batch smaller than the global batch size, under
\* mixed precision: the mean is not a whole number.
C6_Witness ==
    /\ Trained
    /\ nsteps = 2
    /\ is_mixed_precision
    /\ Len(fed[Used.train_metrics]) > Len(TheBatch.features)
    /\ Len(TheBatch.features) < global_batch_size
    /\ MeanResult(AfterTrainMetric).den > 1

\* C7: both steps hand the loss the logits of the model on [features,
\* pred_inp], the batch's labels and label lengths, the featurizer's blank,
\* and logit_length = input_length // time_reduction_factor, which is the
\* largest whole number of factors that fits (0 for an input shorter than the
\* factor); the steps differ only in the training flag given to the model.
\* The length arithmetic is a fact about the division alone; it is also
\* evaluated on a whole range of lengths and factors on the fresh trainer.
C7_LossArguments ==
    /\ (Trained \/ Evaluated) =>
          LET a == Loc.loss_args[1]
              f == Before.model.time_reduction_factor
          IN
          /\ step.raised = ""
          /\ a.logits = ModelCall(Before.model, <<TheBatch.features, TheBatch.pred_inp>>,
                                  Trained)
          /\ Loc.logits = <<a.logits>>
          /\ step.calls[1].op = (IF Trained THEN "model_training" ELSE "model_inference")
          /\ a.labels = TheBatch.labels
          /\ a.label_length = TheBatch.label_length
          /\ a.blank = blank
          /\ DOMAIN a.logit_length = DOMAIN TheBatch.input_length
          /\ \A i \in DOMAIN a.logit_length :
                /\ a.logit_length[i] * f <= TheBatch.input_length[i]
                /\ TheBatch.input_length[i] < (a.logit_length[i] + 1) * f
                /\ TheBatch.input_length[i] < f => a.logit_length[i] = 0
          /\ LET t == train_step(Before, TheBatch).locals.loss_args[1]
                 e == eval_step(Before, TheBatch).locals.loss_args[1]
             IN  /\ [t EXCEPT !.logits = <<>>] = [e EXCEPT !.logits = <<>>]
                 /\ t.logits = ModelCall(Before.model,
                                         <<TheBatch.features, TheBatch.pred_inp>>, TRUE)
                 /\ e.logits = ModelCall(Before.model,
                                         <<TheBatch.features, TheBatch.pred_inp>>, FALSE)
    /\ pc = "constructed" =>
        \A n \in 0..MaxInputLength, f \in 1..MaxFactor :
          LET q == LogitLength(<<n>>, f)[1]
          IN  /\ q * f <= n
              /\ n < (q + 1) * f
              /\ n < f => q = 0

\* A step on a batch with one input shorter than the factor and one that the
\* factor does not divide.
C7_Witness ==
    /\ Evaluated
    /\ Before.model.time_reduction_factor = 4
    /\ TheBatch.input_length = <<2, 9>>
    /\ Loc.loss_args[1].logit_length = <<0, 2>>
    /\ blank = 1

\* C8 as stated: the loss a train step differentiates is the sum of the
\* per-example losses divided by global_batch_size.
C8_DifferentiatedLossIsAverage ==
    Trained =>
        RatMul(Loc.differentiated[1].val, RatInt(global_batch_size))
            = RatSum(Values(Loc.per_train_loss[1]))

\* C8, amended: train_loss is the sum of the per-example losses divided by
\* global_batch_size, not by the number of examples in the batch, so for a
\* batch of n examples it is the batch mean times n / global_batch_size.  The
\* loss that is differentiated is train_loss when is_mixed_precision is
\* false, and train_loss times the optimizer's loss scale when it is true.
C8_AverageOverGlobalBatchSize ==
    Trained =>
        LET per  == Loc.per_train_loss[1]
            n    == Len(per)
            mean == RatMul(RatSum(Values(per)), Rat(1, n))
        IN
        /\ n = Len(TheBatch.features)
        /\ RatMul(Loc.train_loss[1].val, RatInt(global_batch_size)) = RatSum(Values(per))
        /\ Loc.train_loss[1].val = RatMul(mean, Rat(n, global_batch_size))
        /\ \A j \in DOMAIN Loc.train_loss[1].d :
              RatMul(Loc.train_loss[1].d[j], RatInt(global_batch_size))
                  = RatSum([i \in DOMAIN per |-> per[i].d[j]])
        /\ Loc.differentiated[1] =
              IF is_mixed_precision
              THEN DualScale(Loc.train_loss[1],
                             RatInt(Before.optimizer.layers[1].loss_scale))
              ELSE Loc.train_loss[1]

\* A train step on a batch with fewer examples than global_batch_size, with
\* a positive loss.
C8_Witness ==
    /\ Trained
    /\ Len(TheBatch.features) = 2
    /\ global_batch_size = 3
    /\ Loc.train_loss[1].val.num > 0
    /\ is_mixed_precision
    /\ Before.optimizer.layers[1].loss_scale = DynamicInitialScale

\* C9: compile creates the checkpoint manager last, after the optimizer was
\* resolved and (under mixed precision) wrapped and after leaving the
\* strategy scope, inside which model and optimizer were assigned.  The
\* registered optimizer is the object train steps call apply_gradients on
\* (the wrapper under mixed precision), and the registered model is the
\* model the steps call.
C9_CheckpointRegistersWhatStepsUse ==
    /\ Compiled =>
          LET ops == OpsOf(setup.compile)
              n   == Len(ops)
          IN
          /\ ops = IF is_mixed_precision
                   THEN << "scope_enter", "set_model", "summary", "optimizers_get",
                           "LossScaleOptimizer", "scope_exit", "create_checkpoint_manager" >>
                   ELSE << "scope_enter", "set_model", "summary", "optimizers_get",
                           "scope_exit", "create_checkpoint_manager" >>
          /\ \A i \in 1..n :
                setup.compile[i].in_scope <=>
                    ops[i] \in {"set_model", "summary", "optimizers_get",
                                "LossScaleOptimizer", "scope_exit"}
          /\ ~setup.compile[n].in_scope
          /\ ckpt.optimizer = optimizer
          /\ setup.compile[n].wrappers = Len(optimizers[ckpt.optimizer].layers)
          /\ is_mixed_precision => IsLossScaleOptimizer(optimizers[ckpt.optimizer])
          /\ ckpt.model = model
          /\ ckpt.model = setup.compile_args[1].model.name
          /\ ckpt.max_to_keep = MaxToKeep
    /\ (Trained /\ ckpt # NoCkpt) =>
          /\ \A i \in DOMAIN step.calls :
                step.calls[i].op = "apply_gradients" =>
                    step.calls[i].on = ckpt.optimizer
          /\ Used.optimizer = ckpt.optimizer
          /\ Used.model = ckpt.model
    /\ (Evaluated /\ ckpt # NoCkpt) => Used.model = ckpt.model

====
